---- MODULE Spec2Model ----
(***************************************************************************)
(* Model of pysrc/xtallography/lattices/tetragonal.py: the class           *)
(* TetragonalUnitCell (validated construction, the read-only properties    *)
(* `a` and `c`, and the conversion to_julia), together with the two        *)
(* collaborators it calls: the base initializer UnitCell.__init__ and the  *)
(* Julia constructor _JL.TetragonalLatticeConstants.                       *)
(*                                                                         *)
(* A Python float is either a number or NaN.  Numbers are modelled by the  *)
(* integers -MaxMag..MaxMag (an integer n stands for the float n * u for   *)
(* a fixed unit u > 0); NaN is a value of its own for which every ordered  *)
(* comparison is False, as in Python.                                      *)
(***************************************************************************)
EXTENDS Integers, Sequences, FiniteSets

VARIABLES
    pc,       \* "start" | "constructed" | "failed": position of the client
    args,     \* the arguments of the constructor call: [a, c, centering]
    cell,     \* the instance attributes of `self` (attribute name -> value)
    trace,    \* the initialization effects of __init__, in execution order
    jl_log,   \* the calls received by _JL.TetragonalLatticeConstants
    nconv,    \* the number of to_julia calls made by the client
    last      \* the outcome of the latest operation: [op, ret, exc]

vars == <<pc, args, cell, trace, jl_log, nconv, last>>

(***************************************************************************)
(* Bounds                                                                  *)
(***************************************************************************)
MaxMag == 2      \* numbers range over -MaxMag..MaxMag
MaxCalls == 2    \* at most MaxCalls to_julia calls per behaviour

(***************************************************************************)
(* Values                                                                  *)
(***************************************************************************)
Num(n) == [kind |-> "num", v |-> n]
NaN == [kind |-> "nan", v |-> 0]
Floats == {Num(n) : n \in -MaxMag..MaxMag} \cup {NaN}

\* variant: the strict comparison `x < 0`
LtZero(x) == x.kind = "num" /\ x.v < 0

\* Python `x <= 0` on floats: False when x is NaN.
LeZero(x) == x.kind = "num" /\ x.v <= 0

Enum(cls, name) == [kind |-> "enum", cls |-> cls, name |-> name]
Centering ==
    {Enum("Centering", n) :
        n \in {"PRIMITIVE", "BASE_CENTERED", "BODY_CENTERED", "FACE_CENTERED"}}
PRIMITIVE == Enum("Centering", "PRIMITIVE")
BODY_CENTERED == Enum("Centering", "BODY_CENTERED")
TETRAGONAL == Enum("LatticeSystem", "TETRAGONAL")
CUBIC == Enum("LatticeSystem", "CUBIC")

\* The marker of an argument the caller did not pass.
Omitted == [kind |-> "omitted"]
None == [kind |-> "None"]
NoExc == [kind |-> "noexc"]

\* ValueError(f"`{param}` must be positive. ({param}={value})")
ValueError(param, value) ==
    [kind |-> "exc", type |-> "ValueError", param |-> param, value |-> value]

\* The exceptions the Julia backend may raise.
BackendErrors == {"JuliaError", "OutOfMemoryError"}
JlExc(type) == [kind |-> "exc", type |-> type]

(***************************************************************************)
(* Instance attributes                                                     *)
(***************************************************************************)
NoAttrs == [x \in {} |-> None]
SetAttr(o, k, v) == [x \in DOMAIN o \cup {k} |-> IF x = k THEN v ELSE o[x]]

NewFrame(self) == [self |-> self, trace |-> <<>>]

\* self.<name> = v, recorded in the frame's trace
StoreAttr(fr, name, v) ==
    [self |-> SetAttr(fr.self, name, v), trace |-> Append(fr.trace, name)]

\* UnitCell.__init__(self, lattice_system, centering=centering)
UnitCell__init__(fr, lattice_system, centering) ==
    [self |-> SetAttr(SetAttr(fr.self, "lattice_system", lattice_system),
                      "centering", centering),
     trace |-> Append(fr.trace, "UnitCell.__init__")]

\* The default value of the parameter `centering`.
DefaultCentering == PRIMITIVE
BindCentering(passed) == IF passed = Omitted THEN DefaultCentering ELSE passed

Raise(fr, e) == [self |-> fr.self, trace |-> fr.trace, exc |-> e]
Return(fr) == [self |-> fr.self, trace |-> fr.trace, exc |-> NoExc]

(***************************************************************************)
(* TetragonalUnitCell.__init__                                             *)
(***************************************************************************)
\* variant: `a` and `c` stored in each other's attribute
Init_swapped(self, a, c, centering) ==
    IF LeZero(a) THEN Raise(NewFrame(self), ValueError("a", a))
    ELSE IF LeZero(c) THEN Raise(NewFrame(self), ValueError("c", c))
    ELSE Return(StoreAttr(StoreAttr(
            UnitCell__init__(NewFrame(self), TETRAGONAL, centering),
            "_a", c), "_c", a))

\* variant: `c` checked before `a`
Init_c_first(self, a, c, centering) ==
    IF LeZero(c) THEN Raise(NewFrame(self), ValueError("c", c))
    ELSE IF LeZero(a) THEN Raise(NewFrame(self), ValueError("a", a))
    ELSE Return(StoreAttr(StoreAttr(
            UnitCell__init__(NewFrame(self), TETRAGONAL, centering),
            "_a", a), "_c", c))

\* variant: the centering argument is not forwarded to the base initializer
Init_centering_dropped(self, a, c, centering) ==
    IF LeZero(a) THEN Raise(NewFrame(self), ValueError("a", a))
    ELSE IF LeZero(c) THEN Raise(NewFrame(self), ValueError("c", c))
    ELSE Return(StoreAttr(StoreAttr(
            UnitCell__init__(NewFrame(self), TETRAGONAL, PRIMITIVE),
            "_a", a), "_c", c))

\* variant: the lattice system follows the centering
Init_system_by_centering(self, a, c, centering) ==
    IF LeZero(a) THEN Raise(NewFrame(self), ValueError("a", a))
    ELSE IF LeZero(c) THEN Raise(NewFrame(self), ValueError("c", c))
    ELSE Return(StoreAttr(StoreAttr(
            UnitCell__init__(NewFrame(self),
                IF centering = BODY_CENTERED THEN CUBIC ELSE TETRAGONAL,
                centering),
            "_a", a), "_c", c))

\* variant: the base initializer runs before the arguments are checked
Init_super_first(self, a, c, centering) ==
    LET fr == UnitCell__init__(NewFrame(self), TETRAGONAL, centering)
    IN  IF LeZero(a) THEN Raise(fr, ValueError("a", a))
        ELSE IF LeZero(c) THEN Raise(fr, ValueError("c", c))
        ELSE Return(StoreAttr(StoreAttr(fr, "_a", a), "_c", c))

TetragonalUnitCell__init__(self, a, c, centering) ==
    IF LeZero(a) THEN Raise(NewFrame(self), ValueError("a", a))
    ELSE IF LeZero(c) THEN Raise(NewFrame(self), ValueError("c", c))
    ELSE Return(StoreAttr(StoreAttr(
            UnitCell__init__(NewFrame(self), TETRAGONAL, centering),
            "_a", a), "_c", c))

(***************************************************************************)
(* Properties                                                              *)
(***************************************************************************)
TetragonalUnitCell_a(self) == self["_a"]
TetragonalUnitCell_c(self) == self["_c"]
UnitCell_centering(self) == self["centering"]
UnitCell_lattice_system(self) == self["lattice_system"]

(***************************************************************************)
(* Conversion                                                              *)
(***************************************************************************)
\* _JL.TetragonalLatticeConstants(x, y): the backend either returns a new
\* Julia struct holding (x, y) or raises; `behaviour` is its choice.
JL_TetragonalLatticeConstants(log, x, y, behaviour) ==
    LET out == IF behaviour = "ok"
               THEN [kind |-> "jl", id |-> Len(log) + 1, a |-> x, c |-> y]
               ELSE JlExc(behaviour)
    IN  [log |-> Append(log, [args |-> <<x, y>>, out |-> out]), out |-> out]

Outcome(call) ==
    [log |-> call.log,
     ret |-> IF call.out.kind = "jl" THEN call.out ELSE None,
     exc |-> IF call.out.kind = "exc" THEN call.out ELSE NoExc]

\* variant: the arguments are passed as (c, a)
ToJulia_swapped(self, log, behaviour) ==
    Outcome(JL_TetragonalLatticeConstants(
        log, TetragonalUnitCell_c(self), TetragonalUnitCell_a(self), behaviour))

\* variant: the struct of an earlier successful conversion is reused
ToJulia_cached(self, log, behaviour) ==
    IF \E i \in 1..Len(log) : log[i].out.kind = "jl"
    THEN [log |-> log,
          ret |-> log[CHOOSE i \in 1..Len(log) : log[i].out.kind = "jl"].out,
          exc |-> NoExc]
    ELSE Outcome(JL_TetragonalLatticeConstants(
            log, TetragonalUnitCell_a(self), TetragonalUnitCell_c(self),
            behaviour))

\* variant: a backend exception is caught and re-raised as RuntimeError
ToJulia_wrapping(self, log, behaviour) ==
    LET o == Outcome(JL_TetragonalLatticeConstants(
                log, TetragonalUnitCell_a(self), TetragonalUnitCell_c(self),
                behaviour))
    IN  [log |-> o.log, ret |-> o.ret,
         exc |-> IF o.exc = NoExc THEN NoExc ELSE JlExc("RuntimeError")]

TetragonalUnitCell_to_julia(self, log, behaviour) ==
    Outcome(JL_TetragonalLatticeConstants(
        log, TetragonalUnitCell_a(self), TetragonalUnitCell_c(self), behaviour))

(***************************************************************************)
(* The client: one constructor call, then any exposed operation            *)
(***************************************************************************)
Init ==
    /\ pc = "start"
    /\ args \in [a : Floats, c : Floats, centering : Centering \cup {Omitted}]
    /\ cell = NoAttrs
    /\ trace = <<>>
    /\ jl_log = <<>>
    /\ nconv = 0
    /\ last = [op |-> "none", ret |-> None, exc |-> NoExc]

Construct ==
    /\ pc = "start"
    /\ LET r == TetragonalUnitCell__init__(
                    NoAttrs, args.a, args.c, BindCentering(args.centering))
       IN  /\ cell' = r.self
           /\ trace' = r.trace
           /\ last' = [op |-> "__init__", ret |-> None, exc |-> r.exc]
           /\ pc' = IF r.exc = NoExc THEN "constructed" ELSE "failed"
    /\ UNCHANGED <<args, jl_log, nconv>>

Read_a ==
    /\ pc = "constructed"
    /\ last' = [op |-> "a", ret |-> TetragonalUnitCell_a(cell), exc |-> NoExc]
    /\ UNCHANGED <<pc, args, cell, trace, jl_log, nconv>>

Read_c ==
    /\ pc = "constructed"
    /\ last' = [op |-> "c", ret |-> TetragonalUnitCell_c(cell), exc |-> NoExc]
    /\ UNCHANGED <<pc, args, cell, trace, jl_log, nconv>>

Read_centering ==
    /\ pc = "constructed"
    /\ last' = [op |-> "centering", ret |-> UnitCell_centering(cell),
                exc |-> NoExc]
    /\ UNCHANGED <<pc, args, cell, trace, jl_log, nconv>>

Read_lattice_system ==
    /\ pc = "constructed"
    /\ last' = [op |-> "lattice_system", ret |-> UnitCell_lattice_system(cell),
                exc |-> NoExc]
    /\ UNCHANGED <<pc, args, cell, trace, jl_log, nconv>>

ToJulia ==
    /\ pc = "constructed"
    /\ nconv < MaxCalls
    /\ \E behaviour \in {"ok"} \cup BackendErrors :
         LET r == TetragonalUnitCell_to_julia(cell, jl_log, behaviour)
         IN  /\ jl_log' = r.log
             /\ last' = [op |-> "to_julia", ret |-> r.ret, exc |-> r.exc]
    /\ nconv' = nconv + 1
    /\ UNCHANGED <<pc, args, cell, trace>>

Next ==
    \/ Construct
    \/ Read_a
    \/ Read_c
    \/ Read_centering
    \/ Read_lattice_system
    \/ ToJulia

Spec == Init /\ [][Next]_vars

(***************************************************************************)
(* Properties                                                              *)
(***************************************************************************)
\* The mathematical order on the supplied values: NaN is neither positive
\* nor non-positive.
Positive(x) == x.kind = "num" /\ x.v > 0
NonPositive(x) == x.kind = "num" /\ x.v <= 0

Constructed == pc = "constructed"
LastCall == jl_log[Len(jl_log)]

\* C1: for all numbers a > 0 and c > 0 and any centering, construction
\* succeeds, and afterwards the accessors a and c return exactly the supplied
\* a and c.
ThmC1 ==
    (pc # "start" /\ Positive(args.a) /\ Positive(args.c)) =>
        /\ pc = "constructed"
        /\ TetragonalUnitCell_a(cell) = args.a
        /\ TetragonalUnitCell_c(cell) = args.c
        /\ (last.op = "__init__" => last.exc = NoExc)
        /\ (last.op = "a" => last.ret = args.a)
        /\ (last.op = "c" => last.ret = args.c)

WitC1 ==
    /\ pc = "constructed"
    /\ Positive(args.a) /\ Positive(args.c) /\ args.a # args.c
    /\ last.op = "a" /\ last.ret = args.a

\* C2: for all a <= 0 and any c, construction fails with a ValueError that
\* names `a` and cites its value; when c <= 0 as well the error still
\* concerns `a`, never `c`.
ThmC2 ==
    (pc # "start" /\ NonPositive(args.a)) =>
        /\ pc = "failed"
        /\ last.op = "__init__"
        /\ last.exc = ValueError("a", args.a)

WitC2 ==
    /\ pc = "failed"
    /\ NonPositive(args.a) /\ NonPositive(args.c) /\ args.a # args.c
    /\ last.exc.param = "a"

\* C3: for all a > 0 and c <= 0 construction fails with a ValueError that
\* names `c` and cites its value; construction fails if and only if a <= 0
\* or c <= 0, and ValueError is the only kind of error it raises.
ThmC3 ==
    pc # "start" =>
        /\ (Positive(args.a) /\ NonPositive(args.c)) =>
              (pc = "failed" /\ last.exc = ValueError("c", args.c))
        /\ pc = "failed" <=> (NonPositive(args.a) \/ NonPositive(args.c))
        /\ pc = "failed" =>
              (last.op = "__init__" /\ last.exc.kind = "exc"
                 /\ last.exc.type = "ValueError")
        /\ pc = "constructed" => (last.op = "__init__" => last.exc = NoExc)

WitC3 ==
    /\ pc = "failed"
    /\ Positive(args.a) /\ args.c = Num(0)
    /\ last.exc = ValueError("c", Num(0))

\* C4: with the centering argument omitted the object's centering is
\* PRIMITIVE; an explicitly passed centering is stored and read back
\* unchanged, for every value of the enumeration, and no centering makes
\* construction fail.
ThmC4 ==
    /\ pc = "constructed" =>
        LET expected == IF args.centering = Omitted
                        THEN Enum("Centering", "PRIMITIVE")
                        ELSE args.centering
        IN  /\ UnitCell_centering(cell) = expected
            /\ (last.op = "centering" => last.ret = expected)
    /\ pc = "failed" => (NonPositive(args.a) \/ NonPositive(args.c))

WitC4 ==
    /\ pc = "constructed"
    /\ args.centering = Enum("Centering", "FACE_CENTERED")
    /\ last.op = "centering" /\ last.ret = Enum("Centering", "FACE_CENTERED")

\* C5: every constructed cell has lattice_system TETRAGONAL whatever a, c
\* and centering were; it is set once, by the one call of the base
\* initializer, and no later operation changes it.
ThmC5 ==
    /\ [](pc = "constructed" =>
            /\ UnitCell_lattice_system(cell)
                 = Enum("LatticeSystem", "TETRAGONAL")
            /\ (last.op = "lattice_system" =>
                  last.ret = Enum("LatticeSystem", "TETRAGONAL"))
            /\ Cardinality({i \in 1..Len(trace) :
                              trace[i] = "UnitCell.__init__"}) = 1)
    /\ [][pc = "constructed" =>
            UnitCell_lattice_system(cell)' = UnitCell_lattice_system(cell)]_vars

WitC5 ==
    /\ pc = "constructed"
    /\ args.centering = Enum("Centering", "BODY_CENTERED")
    /\ nconv > 0
    /\ last.op = "lattice_system"

\* C6: each to_julia call makes exactly one call of
\* _JL.TetragonalLatticeConstants, with the arguments (a, c) in that order,
\* equal to the stored values, and returns the struct that call returned.
ThmC6 ==
    [][nconv' # nconv =>
        /\ nconv' = nconv + 1
        /\ Len(jl_log') = Len(jl_log) + 1
        /\ SubSeq(jl_log', 1, Len(jl_log)) = jl_log
        /\ LastCall'.args = <<cell["_a"], cell["_c"]>>
        /\ LastCall'.args = <<args.a, args.c>>
        /\ (LastCall'.out.kind = "jl" =>
              (last'.ret = LastCall'.out /\ last'.exc = NoExc))]_vars

WitC6 ==
    /\ last.op = "to_julia"
    /\ last.ret.kind = "jl"
    /\ args.a # args.c
    /\ last.ret = LastCall.out

\* C7: repeated conversions leave a, c, centering and lattice_system
\* unchanged and make one backend call each, all with the same arguments;
\* the structs returned are distinct objects with equal content: nothing is
\* cached or reused.
ThmC7 ==
    /\ [](/\ Len(jl_log) = nconv
          /\ \A i, j \in 1..Len(jl_log) :
                i < j =>
                  /\ jl_log[i].args = jl_log[j].args
                  /\ (jl_log[i].out.kind = "jl" /\ jl_log[j].out.kind = "jl") =>
                        /\ jl_log[i].out.id # jl_log[j].out.id
                        /\ jl_log[i].out.a = jl_log[j].out.a
                        /\ jl_log[i].out.c = jl_log[j].out.c)
    /\ [][nconv' # nconv =>
            /\ cell' = cell
            /\ (LastCall'.out.kind = "jl" => last'.ret = LastCall'.out)]_vars

WitC7 ==
    /\ nconv = 2
    /\ Len(jl_log) = 2
    /\ jl_log[1].out.kind = "jl" /\ jl_log[2].out.kind = "jl"
    /\ last.ret = jl_log[2].out /\ last.ret # jl_log[1].out

\* C8: a conversion fails exactly when the backend raises, and then with the
\* backend's own exception; the cell is unchanged by it, and a later
\* conversion still passes the original (a, c).
ThmC8 ==
    /\ [][nconv' # nconv =>
            /\ (last'.exc # NoExc) <=> (LastCall'.out.kind = "exc")
            /\ (LastCall'.out.kind = "exc" =>
                  (last'.exc = LastCall'.out /\ last'.ret = None))
            /\ cell' = cell]_vars
    /\ [](\A i \in 1..Len(jl_log) :
            (i > 1 /\ jl_log[i - 1].out.kind = "exc") =>
                jl_log[i].args = <<args.a, args.c>>)

WitC8 ==
    /\ Len(jl_log) = 2
    /\ jl_log[1].out.kind = "exc"
    /\ jl_log[2].args = <<args.a, args.c>>
    /\ args.a # args.c
    /\ last.exc = NoExc

\* C9: for every constructed cell, after any sequence of the exposed
\* operations, a > 0 and c > 0 hold and a, c and centering are the values
\* supplied at construction.
CexC9 ==
    pc = "constructed" =>
        /\ Positive(TetragonalUnitCell_a(cell))
        /\ Positive(TetragonalUnitCell_c(cell))
        /\ TetragonalUnitCell_a(cell) = args.a
        /\ TetragonalUnitCell_c(cell) = args.c
        /\ UnitCell_centering(cell) =
              (IF args.centering = Omitted
               THEN Enum("Centering", "PRIMITIVE") ELSE args.centering)

\* C10: validation precedes all initialization: when construction fails the
\* base initializer has not run, no attribute has been stored and the backend
\* has not been called; on success the base initializer runs first, then `a`
\* is stored, then `c`.
ThmC10 ==
    /\ pc = "start" => (trace = <<>> /\ DOMAIN cell = {})
    /\ pc = "failed" =>
          (trace = <<>> /\ DOMAIN cell = {} /\ jl_log = <<>> /\ nconv = 0)
    /\ pc = "constructed" =>
          /\ trace = <<"UnitCell.__init__", "_a", "_c">>
          /\ DOMAIN cell = {"lattice_system", "centering", "_a", "_c"}

WitC10 ==
    /\ pc = "failed"
    /\ Positive(args.a) /\ NonPositive(args.c)
    /\ trace = <<>>

====
